---- MODULE Spec2Model ----
(***************************************************************************)
(* Model of out_newrelic.go: the Fluent Bit output plugin that batches     *)
(* log records (BufferManager), packages a flushed batch as gzip'd JSON,   *)
(* splitting it recursively while the buffer is at or above maxBufferSize  *)
(* (prepare), and posts every chunk from its own goroutine (makeRequest).  *)
(***************************************************************************)
EXTENDS Integers, Sequences, FiniteSets, Bags, TLC

VARIABLES
    ctx,            \* the configuration strings the host hands to FLBPluginInit
    phase,          \* "uninit" | "initFailed" | "running" | "exited" | "crashed"
    config,         \* PluginConfig (the fields the batching path reads)
    buffer,         \* bufferManager.buffer
    lastFlushTime,  \* bufferManager.lastFlushTime
    now,            \* the wall clock read by timeNowInMiliseconds
    accepted,       \* history: every record appended by addRecord, in order
    snapshots,      \* history: newBuffer of every sendRecords call, in order
    splits,         \* history: every record list prepare has split
    tasks,          \* one entry per goroutine spawned by prepare
    chanLen,        \* number of responses queued in each flush's responseChan
    lastOutcome,    \* how the last prepare ended: "none" | "ok" | "panic" | "overflow"
    inRecord,       \* the raw record last handed to prepareRecord
    inTimestamp,    \* the raw timestamp last handed to prepareRecord
    outRecord       \* the record prepareRecord returned for them

(* The arguments and the result of the last prepareRecord call. *)
normVars == <<inRecord, inTimestamp, outRecord>>

vars == <<ctx, phase, config, buffer, lastFlushTime, now, accepted, snapshots,
          splits, tasks, chanLen, lastOutcome, inRecord, inTimestamp, outRecord>>

----------------------------------------------------------------------------
(* Bounds of the exploration. *)

MaxInserts == 3
MaxClock == 2

(* Shapes of record fed to addRecord: a small one, a large one, and one    *)
(* json.Marshal rejects (remapRecord leaves a map[interface{}]interface{}  *)
(* nested in a list untouched, which encoding/json cannot encode).         *)
Kinds == {"small", "big", "bad"}

(* Configuration strings handed to FLBPluginInit, as character sequences.  *)
KeyStrs == {<<>>, <<"k">>}
MaxRecordsStrs == {<<>>, <<"2">>}
MaxTimeStrs == {<<>>, <<"1">>}
MaxBufferStrs == {<<>>, <<"8">>, <<"1", "6">>, <<"x">>, <<"-", "1">>}
SourceTypeStrs == {<<>>, <<"custom-type">>}
SourceVersionStrs == {<<>>, <<"9.9">>}

----------------------------------------------------------------------------
(* strconv.ParseInt(s, 10, 64) with the error discarded.                   *)

Digits == <<"0", "1", "2", "3", "4", "5", "6", "7", "8", "9">>

IsDigit(c) == \E i \in 1..10 : Digits[i] = c

DigitVal(c) == (CHOOSE i \in 1..10 : Digits[i] = c) - 1

RECURSIVE ParseDigits(_, _)
ParseDigits(s, acc) ==
    IF s = <<>> THEN acc
    ELSE ParseDigits(Tail(s), acc * 10 + DigitVal(Head(s)))

ParseInt(s) ==
    IF s = <<>> THEN 0
    ELSE LET neg  == Head(s) = "-"
             body == IF Head(s) \in {"-", "+"} THEN Tail(s) ELSE s
         IN IF body = <<>> \/ \E i \in 1..Len(body) : ~IsDigit(body[i])
            THEN 0
            ELSE IF neg THEN 0 - ParseDigits(body, 0) ELSE ParseDigits(body, 0)

----------------------------------------------------------------------------
(* FLBPluginInit: credential validation and threshold parsing.             *)

(* Variant: the check that both keys are set is missing. *)
credentialsOKEither(apiKey, licenseKey) ==
    ~(Len(apiKey) = 0 /\ Len(licenseKey) = 0)

credentialsOK(apiKey, licenseKey) ==
    /\ ~(Len(apiKey) = 0 /\ Len(licenseKey) = 0)
    /\ ~(Len(apiKey) > 0 /\ Len(licenseKey) > 0)

parseThreshold(s, default) == IF Len(s) = 0 THEN default ELSE ParseInt(s)

NoConfig ==
    [apiKey |-> <<>>, licenseKey |-> <<>>, useApiKey |-> FALSE,
     maxBufferSize |-> 0, maxRecords |-> 0, maxTimeBetweenFlushes |-> 0,
     reportingSourceType |-> <<>>, reportingSourceVersion |-> <<>>]

(* The VERSION constant of the build (version.go). *)
VERSION == <<"build-version">>

(* config.reportingSourceVersion: the test is on reportingSourceType. *)
sourceVersion(reportingSourceType, reportingSourceVersion) ==
    IF Len(reportingSourceType) = 0 THEN VERSION ELSE reportingSourceVersion

sourceType(reportingSourceType) ==
    IF Len(reportingSourceType) = 0 THEN <<"fluent-bit">> ELSE reportingSourceType

(* output.FLBPluginConfigKey(ctx, key) *)
FLBPluginConfigKey(key) == ctx[key]

FLBPluginInit ==
    /\ phase = "uninit"
    /\ LET apiKey     == FLBPluginConfigKey("apiKey")
           licenseKey == FLBPluginConfigKey("licenseKey")
       IN IF credentialsOK(apiKey, licenseKey)
          THEN /\ config' =
                    [apiKey |-> apiKey, licenseKey |-> licenseKey,
                     useApiKey |-> Len(apiKey) > 0,
                     maxBufferSize |->
                         parseThreshold(FLBPluginConfigKey("maxBufferSize"), 256000),
                     maxRecords |->
                         parseThreshold(FLBPluginConfigKey("maxRecords"), 1024),
                     maxTimeBetweenFlushes |->
                         parseThreshold(FLBPluginConfigKey("maxTimeBetweenFlushes"), 5000),
                     reportingSourceType |->
                         sourceType(FLBPluginConfigKey("reportingSourceType")),
                     reportingSourceVersion |->
                         sourceVersion(FLBPluginConfigKey("reportingSourceType"),
                                       FLBPluginConfigKey("reportingSourceVersion"))]
               /\ lastFlushTime' = now
               /\ phase' = "running"
          ELSE /\ phase' = "initFailed"
               /\ UNCHANGED <<config, lastFlushTime>>
    /\ UNCHANGED <<ctx, buffer, now, accepted, snapshots, splits, tasks, chanLen,
                   lastOutcome, normVars>>

----------------------------------------------------------------------------
(* packagePayload and the size test of prepare.                            *)

(* Bytes a record adds to the gzip stream, and the bytes of an empty one.  *)
GzipOverhead == 2

Weight(r) == IF r.kind = "big" THEN 6 ELSE 1

RECURSIVE SumWeights(_)
SumWeights(records) ==
    IF records = <<>> THEN 0
    ELSE Weight(Head(records)) + SumWeights(Tail(records))

(* Length of the buffer packagePayload returns. *)
gzipLen(records) == GzipOverhead + SumWeights(records)

(* json.Marshal succeeds. *)
marshalOK(records) == \A i \in 1..Len(records) : records[i].kind # "bad"

(* bytes.Buffer grows by doubling from its smallest allocation, so the     *)
(* capacity data.Cap() reports is at least, and usually above, its length. *)
SmallBufferSize == 4

RECURSIVE growCap(_, _)
growCap(c, n) == IF n <= c THEN c ELSE growCap(2 * c, n)

bufCap(records) == growCap(SmallBufferSize, gzipLen(records))

needsSplit(records, maxBufferSize) == bufCap(records) >= maxBufferSize

----------------------------------------------------------------------------
(* prepare: the result is the chunks handed to goroutines in call order,   *)
(* the lists that were split, and how the call ended.  A list of length 0  *)
(* or 1 that needs splitting is "split" into an empty list and itself, so  *)
(* the call on the second half repeats the enclosing call and the          *)
(* recursion never returns (the goroutine stack overflows).                *)

RECURSIVE prepare(_, _)
prepare(records, maxBufferSize) ==
    IF ~marshalOK(records)
    THEN [chunks |-> <<>>, split |-> {}, outcome |-> "panic"]
    ELSE IF needsSplit(records, maxBufferSize)
    THEN LET mid    == Len(records) \div 2
             first  == SubSeq(records, 1, mid)
             second == SubSeq(records, mid + 1, Len(records))
         IN IF first = records
            THEN [chunks |-> <<>>, split |-> {records}, outcome |-> "overflow"]
            ELSE LET r1 == prepare(first, maxBufferSize)
                 IN IF r1.outcome # "ok" \/ second = records
                    THEN [chunks |-> r1.chunks,
                          split |-> {records} \cup r1.split,
                          outcome |-> "overflow"]
                    ELSE LET r2 == prepare(second, maxBufferSize)
                         IN [chunks |-> r1.chunks \o r2.chunks,
                             split |-> {records} \cup r1.split \cup r2.split,
                             outcome |-> r2.outcome]
    ELSE [chunks |-> <<records>>, split |-> {}, outcome |-> "ok"]

----------------------------------------------------------------------------
(* BufferManager.                                                          *)

(* Variant: the batch is never reported empty. *)
isEmptyNever(buf) == FALSE

isEmpty(buf) == Len(buf) = 0

(* Variant: the time threshold is inclusive. *)
shouldSendInclusive(buf, t) ==
    \/ Len(buf) >= config.maxRecords
    \/ (t - lastFlushTime) >= config.maxTimeBetweenFlushes

(* Variant: only the record count is tested. *)
shouldSendCountOnly(buf, t) ==
    Len(buf) >= config.maxRecords

(* Variant: the count threshold is exclusive. *)
shouldSendCountStrict(buf, t) ==
    \/ Len(buf) > config.maxRecords
    \/ (t - lastFlushTime) > config.maxTimeBetweenFlushes

shouldSend(buf, t) ==
    \/ Len(buf) >= config.maxRecords
    \/ (t - lastFlushTime) > config.maxTimeBetweenFlushes

newTasks(chunks, flush) ==
    [i \in 1..Len(chunks) |->
        [flush |-> flush, recs |-> chunks[i], st |-> "spawned",
         headers |-> {}, sends |-> 0]]

(* Variant: lastFlushTime is not reset. *)
sendRecordsStaleTime(buf, t, returned) ==
    LET res == prepare(buf, config.maxBufferSize)
        id  == Len(snapshots) + 1
    IN /\ snapshots' = Append(snapshots, buf)
       /\ buffer' = <<>>
       /\ lastFlushTime' = lastFlushTime
       /\ now' = t
       /\ splits' = splits \cup res.split
       /\ tasks' = tasks \o newTasks(res.chunks, id)
       /\ chanLen' = Append(chanLen, 0)
       /\ lastOutcome' = res.outcome
       /\ phase' = IF res.outcome = "ok" THEN returned ELSE "crashed"

(* Variant: the live batch is not replaced after the copy. *)
sendRecordsKeepBuffer(buf, t, returned) ==
    LET res == prepare(buf, config.maxBufferSize)
        id  == Len(snapshots) + 1
    IN /\ snapshots' = Append(snapshots, buf)
       /\ buffer' = buf
       /\ lastFlushTime' = t
       /\ now' = t
       /\ splits' = splits \cup res.split
       /\ tasks' = tasks \o newTasks(res.chunks, id)
       /\ chanLen' = Append(chanLen, 0)
       /\ lastOutcome' = res.outcome
       /\ phase' = IF res.outcome = "ok" THEN returned ELSE "crashed"

(* sendRecords on the batch buf, reading the clock as t; returned is what  *)
(* the caller does when prepare comes back.                                *)
sendRecords(buf, t, returned) ==
    LET res == prepare(buf, config.maxBufferSize)
        id  == Len(snapshots) + 1
    IN /\ snapshots' = Append(snapshots, buf)
       /\ buffer' = <<>>
       /\ lastFlushTime' = t
       /\ now' = t
       /\ splits' = splits \cup res.split
       /\ tasks' = tasks \o newTasks(res.chunks, id)
       /\ chanLen' = Append(chanLen, 0)
       /\ lastOutcome' = res.outcome
       /\ phase' = IF res.outcome = "ok" THEN returned ELSE "crashed"

(* One iteration of FLBPluginFlush: addRecord of a prepared record.  The   *)
(* clock may advance between the read in shouldSend and in sendRecords.    *)
addRecord(record) ==
    LET buf == Append(buffer, record)
    IN /\ accepted' = Append(accepted, record)
       /\ IF shouldSend(buf, now)
          THEN \E t \in now..(IF now < MaxClock THEN now + 1 ELSE now) :
                   sendRecords(buf, t, "running")
          ELSE /\ buffer' = buf
               /\ UNCHANGED <<phase, lastFlushTime, now, snapshots, splits,
                              tasks, chanLen, lastOutcome>>
       /\ UNCHANGED <<ctx, config, normVars>>

FLBPluginFlush ==
    /\ phase = "running"
    /\ Len(accepted) < MaxInserts
    /\ \E k \in Kinds : addRecord([id |-> Len(accepted) + 1, kind |-> k])

FLBPluginExit ==
    /\ phase = "running"
    /\ IF ~isEmpty(buffer)
       THEN sendRecords(buffer, now, "exited")
       ELSE /\ phase' = "exited"
            /\ UNCHANGED <<buffer, lastFlushTime, now, snapshots, splits,
                           tasks, chanLen, lastOutcome>>
    /\ UNCHANGED <<ctx, config, accepted, normVars>>

(* Time passes; nothing in the plugin runs on a timer. *)
Tick ==
    /\ phase = "running"
    /\ now < MaxClock
    /\ now' = now + 1
    /\ UNCHANGED <<ctx, phase, config, buffer, lastFlushTime, accepted, snapshots,
                   splits, tasks, chanLen, lastOutcome, normVars>>

----------------------------------------------------------------------------
(* makeRequest, run by the goroutine of one chunk.                         *)

Outcomes == {"error", "non202", "got202"}

(* Variant: the license header is added whatever credential is configured. *)
requestHeadersLicenseOnly ==
    {<<"X-License-Key", config.licenseKey>>,
     <<"Content-Encoding", <<"gzip">>>>,
     <<"Content-Type", <<"application/json">>>>}

(* The headers makeRequest adds to the request. *)
requestHeaders ==
    {IF config.useApiKey
        THEN <<"X-Insert-Key", config.apiKey>>
        ELSE <<"X-License-Key", config.licenseKey>>,
     <<"Content-Encoding", <<"gzip">>>>,
     <<"Content-Type", <<"application/json">>>>}

(* Variant: a transport error leaves the chunk to be posted once more. *)
makeRequestDoRetry(i, outcome) ==
    /\ tasks[i].st = "spawned"
    /\ tasks' = [tasks EXCEPT
                    ![i].st = IF outcome = "error" /\ tasks[i].sends = 0
                              THEN "spawned" ELSE outcome,
                    ![i].headers = requestHeaders,
                    ![i].sends = @ + 1]
    /\ UNCHANGED <<ctx, phase, config, buffer, lastFlushTime, now, accepted,
                   snapshots, splits, chanLen, lastOutcome, normVars>>

(* The request is built and client.Do returns: a transport error, a status *)
(* other than 202, or 202.                                                 *)
makeRequestDo(i, outcome) ==
    /\ tasks[i].st = "spawned"
    /\ tasks' = [tasks EXCEPT ![i].st = outcome,
                              ![i].headers = requestHeaders,
                              ![i].sends = @ + 1]
    /\ UNCHANGED <<ctx, phase, config, buffer, lastFlushTime, now, accepted,
                   snapshots, splits, chanLen, lastOutcome, normVars>>

(* responseChan <- resp on a channel of capacity 1 that nobody reads. *)
makeRequestSignal(i) ==
    /\ tasks[i].st = "got202"
    /\ chanLen[tasks[i].flush] < 1
    /\ tasks' = [tasks EXCEPT ![i].st = "signalled"]
    /\ chanLen' = [chanLen EXCEPT ![tasks[i].flush] = @ + 1]
    /\ UNCHANGED <<ctx, phase, config, buffer, lastFlushTime, now, accepted,
                   snapshots, splits, lastOutcome, normVars>>

Respond == \E i \in 1..Len(tasks), o \in Outcomes : makeRequestDo(i, o)

Signal == \E i \in 1..Len(tasks) : makeRequestSignal(i)

----------------------------------------------------------------------------
(* Record normalization: remapRecord, timeToMillis, prepareRecord.         *)

(* An int64 timestamp is written in base 1000, most significant limb       *)
(* first and not zero; the empty sequence is 0.  Only values from 0 up are *)
(* represented.                                                            *)
NumLess(a, b) ==
    \/ Len(a) < Len(b)
    \/ /\ Len(a) = Len(b)
       /\ \E i \in 1..Len(a) : a[i] < b[i] /\ \A j \in 1..(i - 1) : a[j] = b[j]

(* time * 1000 *)
Mul1000(a) == IF a = <<>> THEN <<>> ELSE Append(a, 0)

(* time / 1000 *)
Div1000(a) == IF a = <<>> THEN <<>> ELSE SubSeq(a, 1, Len(a) - 1)

maxSeconds == <<2, 0, 0, 0>>

maxMilliseconds == Mul1000(maxSeconds)

maxMicroseconds == Mul1000(maxMilliseconds)

(* Variant: nanoseconds are divided by 1000 only. *)
timeToMillisShortDivide(time) ==
    IF NumLess(time, maxSeconds) THEN Mul1000(time)
    ELSE IF NumLess(time, maxMilliseconds) THEN time
    ELSE Div1000(time)

timeToMillis(time) ==
    IF NumLess(time, maxSeconds) THEN Mul1000(time)
    ELSE IF NumLess(time, maxMilliseconds) THEN time
    ELSE IF NumLess(time, maxMicroseconds) THEN Div1000(time)
    ELSE Div1000(Div1000(time))

(* Timestamps tried: 0, and values at, just below and inside each bracket. *)
TimeSamples ==
    {<<>>,
     <<1, 555, 612, 951>>, <<1, 999, 999, 999>>, <<2, 0, 0, 0>>,
     <<1, 555, 612, 951, 401>>, <<1, 999, 999, 999, 999>>, <<2, 0, 0, 0, 0>>,
     <<1, 555, 612, 951, 401, 123>>, <<1, 999, 999, 999, 999, 999>>,
     <<2, 0, 0, 0, 0, 0>>,
     <<1, 555, 612, 951, 401, 123, 456>>,
     <<9, 223, 372, 36, 854, 775, 807>>}

(* Raw timestamps: an output.FLBTime (by its UnixNano), a uint64, or a     *)
(* value of another type.                                                  *)
RawTimestamps ==
    [type : {"FLBTime", "uint64"}, value : TimeSamples]
        \cup {[type |-> "string", value |-> <<>>]}

(* Values of a record: byte strings, strings, nested maps, integers.       *)
BytesVal(x) == [t |-> "bytes", s |-> x]

StrVal(x) == [t |-> "string", s |-> x]

RawMapVal(m) == [t |-> "rawmap", m |-> m]

MapVal(m) == [t |-> "map", m |-> m]

IntVal(n) == [t |-> "int64", n |-> n]

RawValues == {BytesVal("b"), StrVal("s"), RawMapVal([inner |-> BytesVal("b")])}

RawKeys == {"log", "message", "timestamp", "host", "nr.reportingSource"}

RawRecords == UNION {[K -> RawValues] : K \in SUBSET RawKeys}

RECURSIVE remapRecord(_)
remapRecord(inputRecord) ==
    [k \in DOMAIN inputRecord |->
        LET value == inputRecord[k]
        IN IF value.t = "bytes" THEN StrVal(value.s)
           ELSE IF value.t = "string" THEN value
           ELSE IF value.t = "rawmap" THEN MapVal(remapRecord(value.m))
           ELSE value]

(* outputRecord[key] = value *)
Put(r, key, value) ==
    [k \in DOMAIN r \cup {key} |-> IF k = key THEN value ELSE r[k]]

(* delete(outputRecord, key) *)
Delete(r, key) == [k \in DOMAIN r \ {key} |-> r[k]]

reportingSource(cfg) ==
    [t |-> "source", type |-> cfg.reportingSourceType,
     version |-> cfg.reportingSourceVersion]

(* Variant: the log key is copied to message but not deleted. *)
prepareRecordKeepLog(inputRecord, inputTimestamp, cfg) ==
    LET remapped == remapRecord(inputRecord)
        stamped  == IF inputTimestamp.type \in {"FLBTime", "uint64"}
                    THEN Put(remapped, "timestamp",
                             IntVal(timeToMillis(inputTimestamp.value)))
                    ELSE remapped
        renamed  == IF "log" \in DOMAIN stamped
                    THEN Put(stamped, "message", stamped["log"])
                    ELSE stamped
    IN Put(renamed, "nr.reportingSource", reportingSource(cfg))

prepareRecord(inputRecord, inputTimestamp, cfg) ==
    LET remapped == remapRecord(inputRecord)
        stamped  == IF inputTimestamp.type \in {"FLBTime", "uint64"}
                    THEN Put(remapped, "timestamp",
                             IntVal(timeToMillis(inputTimestamp.value)))
                    ELSE remapped
        renamed  == IF "log" \in DOMAIN stamped
                    THEN Delete(Put(stamped, "message", stamped["log"]), "log")
                    ELSE stamped
    IN Put(renamed, "nr.reportingSource", reportingSource(cfg))

(* The prepareRecord call of FLBPluginFlush on the record drawn at start. *)
Normalize ==
    /\ phase = "running"
    /\ outRecord' = prepareRecord(inRecord, inTimestamp, config)
    /\ UNCHANGED <<ctx, phase, config, buffer, lastFlushTime, now, accepted,
                   snapshots, splits, tasks, chanLen, lastOutcome, inRecord,
                   inTimestamp>>

----------------------------------------------------------------------------

(* The batching runs leave the reporting source at its defaults. *)
Init ==
    /\ ctx \in [apiKey : KeyStrs, licenseKey : KeyStrs,
                 maxBufferSize : MaxBufferStrs, maxRecords : MaxRecordsStrs,
                 maxTimeBetweenFlushes : MaxTimeStrs,
                 reportingSourceType : {<<>>}, reportingSourceVersion : {<<>>}]
    /\ inRecord = <<>>
    /\ inTimestamp = <<>>
    /\ outRecord = <<>>
    /\ phase = "uninit"
    /\ config = NoConfig
    /\ buffer = <<>>
    /\ lastFlushTime = 0
    /\ now = 0
    /\ accepted = <<>>
    /\ snapshots = <<>>
    /\ splits = {}
    /\ tasks = <<>>
    /\ chanLen = <<>>
    /\ lastOutcome = "none"

Next ==
    \/ FLBPluginInit
    \/ FLBPluginFlush
    \/ FLBPluginExit
    \/ Tick
    \/ Respond
    \/ Signal

Spec == Init /\ [][Next]_vars

(* Initialization and normalization of one raw record, over every setting  *)
(* of the reporting source; the thresholds stay at their defaults.         *)
InitNorm ==
    /\ ctx \in [apiKey : {<<"k">>}, licenseKey : {<<>>},
                 maxBufferSize : {<<>>}, maxRecords : {<<>>},
                 maxTimeBetweenFlushes : {<<>>},
                 reportingSourceType : SourceTypeStrs,
                 reportingSourceVersion : SourceVersionStrs]
    /\ inRecord \in RawRecords
    /\ inTimestamp \in RawTimestamps
    /\ outRecord = <<>>
    /\ phase = "uninit"
    /\ config = NoConfig
    /\ buffer = <<>>
    /\ lastFlushTime = 0
    /\ now = 0
    /\ accepted = <<>>
    /\ snapshots = <<>>
    /\ splits = {}
    /\ tasks = <<>>
    /\ chanLen = <<>>
    /\ lastOutcome = "none"

NextNorm ==
    \/ FLBPluginInit
    \/ Normalize

SpecNorm == InitNorm /\ [][NextNorm]_vars

TypeOK ==
    /\ phase \in {"uninit", "initFailed", "running", "exited", "crashed"}
    /\ Len(accepted) <= MaxInserts
    /\ now \in 0..MaxClock
    /\ lastFlushTime \in 0..MaxClock
    /\ Len(chanLen) = Len(snapshots)

----------------------------------------------------------------------------
(* Vocabulary of the properties.                                           *)

RECURSIVE Flatten(_)
Flatten(seqs) == IF seqs = <<>> THEN <<>> ELSE Head(seqs) \o Flatten(Tail(seqs))

Count(seq, r) == Cardinality({i \in 1..Len(seq) : seq[i] = r})

SameMultiset(s1, s2) ==
    /\ Len(s1) = Len(s2)
    /\ \A i \in 1..Len(s1) : Count(s1, s1[i]) = Count(s2, s1[i])

(* The records of the chunks spawned for flush f, in spawn order. *)
RECURSIVE ChunkRecords(_, _)
ChunkRecords(ts, f) ==
    IF ts = <<>> THEN <<>>
    ELSE (IF Head(ts).flush = f THEN Head(ts).recs ELSE <<>>)
         \o ChunkRecords(Tail(ts), f)

(* The step appends a record (an addRecord call). *)
InsertStep == Len(accepted') = Len(accepted) + 1

(* The step runs sendRecords. *)
FlushStep == Len(snapshots') = Len(snapshots) + 1

(* The step is FLBPluginExit. *)
ExitStep == phase = "running" /\ phase' \in {"exited", "crashed"} /\ accepted' = accepted

(* The records the step appended. *)
Arrived == SubSeq(accepted', Len(accepted) + 1, Len(accepted'))

----------------------------------------------------------------------------
(* C1 (as stated): an insertion flushes iff, right after the append, the   *)
(* batch holds at least maxRecords records or the time since the last      *)
(* flush is greater than or equal to maxTimeBetweenFlushes.                *)
C1_FlushIffInclusive ==
    [][InsertStep =>
        (FlushStep <=>
            \/ Len(buffer) + 1 >= config.maxRecords
            \/ now - lastFlushTime >= config.maxTimeBetweenFlushes)]_vars

(* C1 (amended): an insertion flushes iff, right after the append, the     *)
(* batch holds at least maxRecords records or the time since the last      *)
(* flush is strictly greater than maxTimeBetweenFlushes.                   *)
C1_FlushIffStrict ==
    [][InsertStep =>
        (FlushStep <=>
            \/ Len(buffer) + 1 >= config.maxRecords
            \/ now - lastFlushTime > config.maxTimeBetweenFlushes)]_vars

(* An insertion flushed a batch below the count threshold: the time        *)
(* trigger fired.                                                          *)
C1_Witness ==
    /\ phase = "running"
    /\ Len(snapshots) = 1
    /\ Len(snapshots[1]) < config.maxRecords
    /\ lastFlushTime > config.maxTimeBetweenFlushes

(* C2: a flush is one step: its snapshot is the live batch as the flush    *)
(* found it, the triggering record included and last; when it is done the  *)
(* live batch is empty and lastFlushTime is the clock reading.             *)
C2_FlushAtomic ==
    [][FlushStep =>
        /\ snapshots' = Append(snapshots, buffer \o Arrived)
        /\ buffer' = <<>>
        /\ lastFlushTime' = now']_vars

(* Scenario A: with maxRecords = 2 the second insertion flushed both       *)
(* records, after the clock had moved on from the previous flush time.     *)
C2_Witness ==
    /\ phase = "running"
    /\ config.maxRecords = 2
    /\ Len(snapshots) = 1
    /\ snapshots[1] = accepted
    /\ Len(accepted) = 2
    /\ buffer = <<>>
    /\ lastFlushTime = now
    /\ now > 0

(* C3: every accepted record is in exactly one place, the live batch or    *)
(* one snapshot, and the snapshots in flush order followed by the live     *)
(* batch are the accepted records in arrival order.                        *)
C3_ExactlyOnePlace ==
    /\ Flatten(snapshots) \o buffer = accepted
    /\ \A i \in 1..Len(accepted) :
          Count(Flatten(snapshots), accepted[i]) + Count(buffer, accepted[i]) = 1

(* Two flushes, the second at shutdown, with every insertion used. *)
C3_Witness ==
    /\ phase = "exited"
    /\ Len(snapshots) >= 2
    /\ Len(accepted) >= 3

(* C4 (as stated): the chunks spawned for a flush hold exactly the         *)
(* multiset of records of that flush's snapshot.                           *)
C4_Lossless ==
    \A f \in 1..Len(snapshots) :
        SameMultiset(ChunkRecords(tasks, f), snapshots[f])

(* C5 (as stated): packaging terminates; a list of length 0 or 1 is        *)
(* emitted whatever its size and never split.                              *)
C5_Terminates ==
    /\ lastOutcome # "overflow"
    /\ \A l \in splits : Len(l) >= 2

(* C6 (as stated): a chunk of two or more records is strictly below        *)
(* maxBufferSize compressed, and a list is split exactly when its          *)
(* compressed size is at or above maxBufferSize.                           *)
C6_SplitIffOversize ==
    /\ \A i \in 1..Len(tasks) :
          Len(tasks[i].recs) >= 2 => gzipLen(tasks[i].recs) < config.maxBufferSize
    /\ \A l \in splits : gzipLen(l) >= config.maxBufferSize
    /\ \A i \in 1..Len(tasks) :
          tasks[i].recs \notin splits => gzipLen(tasks[i].recs) < config.maxBufferSize

(* C7 (as stated): every insertion returns normally to its caller. *)
C7_InsertReturns ==
    [][InsertStep => phase' = "running"]_vars

(* C8: initialization succeeds iff exactly one of apiKey and licenseKey is *)
(* non-empty; when it fails nothing is constructed, and a running plugin   *)
(* holds exactly one credential.                                           *)
C8_InitIffOneCredential ==
    phase # "uninit" =>
        /\ (phase # "initFailed") <=>
              ((Len(ctx.apiKey) > 0) # (Len(ctx.licenseKey) > 0))
        /\ phase = "initFailed" =>
              config = NoConfig /\ buffer = <<>> /\ accepted = <<>> /\ tasks = <<>>
        /\ phase # "initFailed" =>
              /\ (Len(config.apiKey) > 0) # (Len(config.licenseKey) > 0)
              /\ config.apiKey = ctx.apiKey
              /\ config.licenseKey = ctx.licenseKey

(* Scenario E: both keys supplied, initialization refused. *)
C8_Witness ==
    /\ phase = "initFailed"
    /\ Len(ctx.apiKey) > 0
    /\ Len(ctx.licenseKey) > 0

(* C9: shutdown flushes once when the live batch is non-empty and not at   *)
(* all when it is empty; the live batch is empty afterwards, the final     *)
(* snapshot is the batch, an empty batch spawns nothing, and the chunks of *)
(* the final flush have not been sent when shutdown returns.               *)
C9_FinalFlush ==
    [][ExitStep =>
        /\ buffer' = <<>>
        /\ IF buffer # <<>>
           THEN snapshots' = Append(snapshots, buffer)
           ELSE snapshots' = snapshots /\ tasks' = tasks
        /\ SubSeq(tasks', 1, Len(tasks)) = tasks
        /\ \A i \in (Len(tasks) + 1)..Len(tasks') :
              /\ tasks'[i].st = "spawned"
              /\ tasks'[i].flush = Len(snapshots')]_vars

(* Shutdown returned after the only flush of the run, whose chunk is still *)
(* waiting to be sent.                                                     *)
C9_Witness ==
    /\ phase = "exited"
    /\ config.maxRecords = 1024
    /\ config.maxTimeBetweenFlushes = 5000
    /\ Len(snapshots) = 1
    /\ snapshots[1] = accepted
    /\ Len(accepted) >= 2
    /\ \E i \in 1..Len(tasks) : tasks[i].flush = 1 /\ tasks[i].st = "spawned"

(* C10: time passing without an insertion changes neither the batch nor    *)
(* the flush history; an insertion made after more than                    *)
(* maxTimeBetweenFlushes flushes the whole batch, earlier records first.   *)
C10_FlushOnlyOnInsert ==
    [][/\ (now' # now /\ accepted' = accepted) =>
             UNCHANGED <<buffer, snapshots, tasks, lastFlushTime, phase>>
       /\ (InsertStep /\ now - lastFlushTime > config.maxTimeBetweenFlushes) =>
             /\ FlushStep
             /\ snapshots'[Len(snapshots')] = buffer \o Arrived]_vars

(* Scenario B: the first insertion did not flush; the second, made after   *)
(* the time threshold, flushed both records.                               *)
C10_Witness ==
    /\ phase = "running"
    /\ config.maxRecords > 2
    /\ Len(snapshots) = 1
    /\ Len(snapshots[1]) = 2
    /\ snapshots[1] = accepted

----------------------------------------------------------------------------
(* Vocabulary of the dispatch properties.                                  *)

(* The step is taken by the goroutine of a chunk. *)
TaskStep == Len(tasks') = Len(tasks) /\ tasks' # tasks

CredentialHeaders(headers) ==
    {h \in headers : h[1] \in {"X-Insert-Key", "X-License-Key"}}

(* C11 (as stated): a send puts its response on the channel iff the status *)
(* is 202: only a send that got 202 signals, a send that got 202 finds     *)
(* room on the channel, a failed or rejected send does nothing more, and   *)
(* no send changes the batch, lastFlushTime or the configuration.          *)
C11_SignalIff202 ==
    [][TaskStep =>
        /\ UNCHANGED <<buffer, lastFlushTime, config, accepted, snapshots>>
        /\ \A i \in 1..Len(tasks) :
              /\ (tasks'[i].st = "signalled" /\ tasks[i].st # "signalled")
                    => tasks[i].st = "got202"
              /\ tasks[i].st \in {"error", "non202"} => tasks'[i] = tasks[i]
              /\ tasks'[i].st = "got202" => chanLen'[tasks'[i].flush] < 1]_vars

(* C12: timeToMillis multiplies a value below maxSeconds by 1000, returns  *)
(* a value below maxMilliseconds unchanged, divides a value below          *)
(* maxMicroseconds by 1000 and any larger value by 1,000,000, rounding     *)
(* down; on seconds-scale inputs a smaller input gives a smaller output.   *)
C12_TimeBrackets ==
    (outRecord # <<>> /\ inTimestamp.type \in {"FLBTime", "uint64"}) =>
        LET in  == inTimestamp.value
            out == outRecord["timestamp"].n
        IN /\ NumLess(in, <<2, 0, 0, 0>>) =>
                 /\ (in = <<>> => out = <<>>)
                 /\ (in # <<>> => out = in \o <<0>>)
                 /\ \A a \in TimeSamples :
                       NumLess(a, in) => NumLess(timeToMillis(a), out)
           /\ (~NumLess(in, <<2, 0, 0, 0>>) /\ NumLess(in, <<2, 0, 0, 0, 0>>)) =>
                 out = in
           /\ (~NumLess(in, <<2, 0, 0, 0, 0>>) /\ NumLess(in, <<2, 0, 0, 0, 0, 0>>)) =>
                 /\ Len(in) = Len(out) + 1
                 /\ SubSeq(in, 1, Len(out)) = out
           /\ ~NumLess(in, <<2, 0, 0, 0, 0, 0>>) =>
                 /\ Len(in) = Len(out) + 2
                 /\ SubSeq(in, 1, Len(out)) = out

(* The clock reading of an FLBTime, 1555612951401123456 ns, became the     *)
(* millisecond value of Scenario D, 1555612951401.                         *)
C12_Witness ==
    /\ outRecord # <<>>
    /\ inTimestamp.type = "FLBTime"
    /\ inTimestamp.value = <<1, 555, 612, 951, 401, 123, 456>>
    /\ outRecord["timestamp"].n = <<1, 555, 612, 951, 401>>

(* C13: a request that was built carries exactly one credential header:    *)
(* X-Insert-Key with the ingest key when one is configured, otherwise      *)
(* X-License-Key with the license key, and its value is not empty.         *)
C13_OneCredentialHeader ==
    \A i \in 1..Len(tasks) :
        tasks[i].st # "spawned" =>
            LET creds == CredentialHeaders(tasks[i].headers)
            IN /\ Cardinality(creds) = 1
               /\ \A h \in creds :
                     /\ Len(h[2]) > 0
                     /\ h = IF Len(ctx.apiKey) > 0
                            THEN <<"X-Insert-Key", ctx.apiKey>>
                            ELSE <<"X-License-Key", ctx.licenseKey>>

(* A request built with the ingest key configured was answered with 202.   *)
C13_Witness ==
    \E i \in 1..Len(tasks) :
        /\ tasks[i].st = "got202"
        /\ <<"X-Insert-Key", <<"k">>>> \in tasks[i].headers

(* C14 (as stated): log is renamed to message, nr.reportingSource is the   *)
(* configured pair, and every other top-level key keeps its value.         *)
C14_RenameStampKeepAll ==
    outRecord # <<>> =>
        /\ "log" \in DOMAIN inRecord =>
              /\ "log" \notin DOMAIN outRecord
              /\ outRecord["message"] = remapRecord(inRecord)["log"]
        /\ outRecord["nr.reportingSource"] = reportingSource(config)
        /\ \A k \in DOMAIN inRecord \ {"log", "nr.reportingSource"} :
              (k = "message" => "log" \notin DOMAIN inRecord) =>
                  /\ k \in DOMAIN outRecord
                  /\ outRecord[k] = remapRecord(inRecord)[k]

(* C14 (amended): as stated, except that the key timestamp holds the       *)
(* normalized raw timestamp whenever the raw timestamp is an FLBTime or a  *)
(* uint64, replacing a timestamp the input carried.                        *)
C14_RenameStampKeepOthers ==
    outRecord # <<>> =>
        /\ "log" \in DOMAIN inRecord =>
              /\ "log" \notin DOMAIN outRecord
              /\ outRecord["message"] = remapRecord(inRecord)["log"]
        /\ outRecord["nr.reportingSource"] = reportingSource(config)
        /\ inTimestamp.type \in {"FLBTime", "uint64"} =>
              outRecord["timestamp"] = IntVal(timeToMillis(inTimestamp.value))
        /\ \A k \in DOMAIN inRecord \ {"log", "nr.reportingSource"} :
              /\ (k = "message" => "log" \notin DOMAIN inRecord)
              /\ (k = "timestamp" => inTimestamp.type \notin {"FLBTime", "uint64"})
              => /\ k \in DOMAIN outRecord
                 /\ outRecord[k] = remapRecord(inRecord)[k]

(* Scenario F with every key present: log became message, the input's      *)
(* reporting source was overwritten, host was kept.                        *)
C14_Witness ==
    /\ outRecord # <<>>
    /\ DOMAIN inRecord = RawKeys
    /\ inRecord["log"] = BytesVal("b")
    /\ inRecord["message"] = StrVal("s")
    /\ outRecord["message"] = StrVal("b")
    /\ outRecord["host"] = MapVal([inner |-> StrVal("b")])
    /\ outRecord["nr.reportingSource"].type = <<"custom-type">>

(* C15 (as stated): after a successful initialization the three thresholds *)
(* are positive, and an absent key yields its default.                     *)
C15_ThresholdsPositive ==
    phase \notin {"uninit", "initFailed"} =>
        /\ config.maxRecords > 0
        /\ config.maxTimeBetweenFlushes > 0
        /\ config.maxBufferSize > 0
        /\ ctx.maxRecords = <<>> => config.maxRecords = 1024
        /\ ctx.maxTimeBetweenFlushes = <<>> => config.maxTimeBetweenFlushes = 5000
        /\ ctx.maxBufferSize = <<>> => config.maxBufferSize = 256000

C17_NoTaskBlocked ==
    \A i \in 1..Len(tasks) :
        tasks[i].st = "got202" => chanLen[tasks[i].flush] < 1

(* C18: with maxRecords at least 1, between insertions the live batch      *)
(* holds fewer than maxRecords records.                                    *)
C18_BelowCountThreshold ==
    config.maxRecords >= 1 => Len(buffer) < config.maxRecords

(* A flush has happened and the batch is filling again, one below the      *)
(* threshold.                                                              *)
C18_Witness ==
    /\ phase = "running"
    /\ config.maxRecords = 2
    /\ Len(snapshots) >= 1
    /\ Len(buffer) = 1

(* C19 (as stated): the stamped version is the build version when          *)
(* reportingSourceVersion is not configured and the configured value when  *)
(* it is, whatever reportingSourceType is.                                 *)
C19_VersionByVersionSetting ==
    phase = "running" =>
        config.reportingSourceVersion =
            IF Len(ctx.reportingSourceVersion) = 0
            THEN VERSION
            ELSE ctx.reportingSourceVersion
====
